---- MODULE Spec2Model ----
(***************************************************************************)
(* Model of the bibliotheca repository layer (src/src/mongo.rs) and of the *)
(* request builders of src/src/book.rs and src/src/user.rs.                *)
(*                                                                         *)
(* The document store is the pair of collections `books` and `users`,      *)
(* each a function from the ObjectIds that resolve to the stored document. *)
(* Every repository call is a short sequence of store round trips; each    *)
(* round trip (each `.await`) is one action, so that concurrent calls      *)
(* interleave exactly at the points where the code yields.                 *)
(***************************************************************************)
EXTENDS Integers, Sequences, FiniteSets, TLC

(* ---------------------------------------------------------------------- *)
(* Bounds                                                                  *)
(* ---------------------------------------------------------------------- *)
MaxBooks == 2
MaxUsers == 2
MaxCalls == 4
MaxConcCalls == 2
MaxUpdates == 1
MaxGenres == 2
MaxComments == 3

Procs == {"p1", "p2"}
SeqProcs == {"p1"}

BookOids == 1..MaxBooks
UserOids == 1..MaxUsers

(* ---------------------------------------------------------------------- *)
(* Identifier strings.  An id arrives as text and is parsed with           *)
(* ObjectId::parse_str, which decodes 24 hex digits of either case: two    *)
(* spellings denote the same ObjectId, while the text itself is what       *)
(* borrow_book pushes on borrowed_books and what return_book compares.     *)
(* ---------------------------------------------------------------------- *)
Spellings == {"lower", "upper"}
Malformed == <<0, "malformed">>
BookIdStrs == (BookOids \X Spellings) \cup {Malformed}
UserIdStrs == (UserOids \X {"lower"}) \cup {Malformed}
\* the ids as the service prints them
CanonBookIds == BookOids \X {"lower"}
CanonUserIds == UserOids \X {"lower"}

parse_str_ok(s) == s[2] \in Spellings
parse_str(s) == s[1]
to_hex(oid) == <<oid, "lower">>

(* ---------------------------------------------------------------------- *)
(* Entities                                                                *)
(* ---------------------------------------------------------------------- *)
SentinelGenre == "000000000000000000000000"

NewBooks == {[title |-> "Dune", author |-> "Herbert", year |-> 1965, resume |-> "sand"]}

Emails == {"ann@lib", "bob@lib"}
BirthDates == {"2000-01-31", "31/01/2000"}
NewUsers == [first_name : {"Ann"}, last_name : {"Lee"}, email : Emails, birth_date : BirthDates]

\* chrono::NaiveDate::parse_from_str(_, "%Y-%m-%d") on the dates of BirthDates
parse_date_ok(d) == d \in {"2000-01-31"}

BookFrom(n) ==
    [title |-> n.title, author |-> n.author, year |-> n.year, resume |-> n.resume,
     availability |-> TRUE, gender_id |-> SentinelGenre]

UserFrom(n) ==
    [first_name |-> n.first_name, last_name |-> n.last_name, email |-> n.email,
     birth_date |-> n.birth_date, borrowed_books |-> <<>>, role |-> "user"]

(* ---------------------------------------------------------------------- *)
(* Store primitives                                                        *)
(* ---------------------------------------------------------------------- *)
\* find_one({_id: oid}): Some(document) or None
find_one(coll, oid) == IF oid \in DOMAIN coll THEN <<coll[oid]>> ELSE <<>>

\* the effect of {"$set": doc} on one stored document
set_fields(old, doc) ==
    [f \in (DOMAIN old) \cup (DOMAIN doc) |-> IF f \in DOMAIN doc THEN doc[f] ELSE old[f]]

\* update_one({_id: oid}, {"$set": doc}): no document matched, nothing written
update_one(coll, oid, doc) ==
    IF oid \in DOMAIN coll THEN [coll EXCEPT ![oid] = set_fields(@, doc)] ELSE coll

insert_one(coll, oid, doc) == coll @@ (oid :> doc)

\* mutant of push: the id is appended only when the list does not hold it yet
push_if_absent(v, x) == IF \E i \in 1..Len(v) : v[i] = x THEN v ELSE Append(v, x)

\* Vec::push
push(v, x) == Append(v, x)

\* mutant of retain_ne: only the first entry equal to id is removed
RECURSIVE remove_first(_, _)
remove_first(v, id) ==
    IF v = <<>> THEN <<>>
    ELSE IF Head(v) = id THEN Tail(v)
    ELSE <<Head(v)>> \o remove_first(Tail(v), id)

\* mutant of retain_ne: the test of the closure is inverted
retain_eq(v, id) == SelectSeq(v, LAMBDA x : x = id)

\* Vec::retain(|x| x != id)
RECURSIVE retain_ne(_, _)
retain_ne(v, id) ==
    IF v = <<>> THEN <<>>
    ELSE IF Head(v) # id THEN <<Head(v)>> \o retain_ne(Tail(v), id)
    ELSE retain_ne(Tail(v), id)

\* The field borrowed_books is declared Vec<String> and stored as a BSON array,
\* written here as the sequence of its id texts.  A BSON string s stored under
\* that key is written as the pair of s and this mark, which no id text equals.
BsonString == <<0, "Bson::String">>
bson_string(s) == <<s, BsonString>>
\* the stored value is a BSON array of strings
is_array(v) == \A i \in 1..Len(v) : v[i] # BsonString

\* bson::from_bson::<User>: fails on a borrowed_books that is not an array
from_bson_user_ok(doc) == is_array(doc.borrowed_books)

(* ---------------------------------------------------------------------- *)
(* Results of a call                                                       *)
(* ---------------------------------------------------------------------- *)
NoResult == [kind |-> "none"]
Ok(v) == [kind |-> "Ok", value |-> v]
Err(m) == [kind |-> "Err", msg |-> m]
\* Option::unwrap on None, Result::unwrap on Err
Panic(where) == [kind |-> "Panic", at |-> where]

NoCall == [op |-> "none"]
NoLocal == [set |-> FALSE]

VARIABLES
    books,      \* collection "books": ObjectId -> document
    users,      \* collection "users": ObjectId -> document
    genres,     \* collection "genres": its documents in the order of their insertion
    comments,   \* collection "comments": its documents in the order of their insertion
    nextBook,   \* ObjectIds generated so far for books
    nextUser,   \* ObjectIds generated so far for users
    pc,         \* per request: the await it is suspended at
    call,       \* per request: the operation and its arguments
    book,       \* per request: local `book`
    user,       \* per request: local `user`
    hashmap,    \* per request: local `hashmap` of the update handlers
    result,     \* per request: what the call returned
    pre,        \* history: the store when the request was received
    writes,     \* history: the collections the request has written, in order
    holder,     \* history: per book, the user (if any) of the last successful borrow not followed by a successful return
    lent,       \* history: per user, the books borrowed and not yet returned, in the order of their borrowing
    ncalls,     \* history: the requests received so far that count against a budget
    scen        \* history: the calls of the scripted run made so far, and the pair they name

vars == <<books, users, genres, comments, nextBook, nextUser, pc, call, book, user, hashmap,
          result, pre, writes, holder, lent, ncalls, scen>>

(* ---------------------------------------------------------------------- *)
(* History variables                                                       *)
(* ---------------------------------------------------------------------- *)
NoHolder == {}

\* the user holding each book after call c has returned res
HolderAfter(c, res) ==
    IF res.kind = "Ok" /\ c.op = "borrow_book"
    THEN [holder EXCEPT ![parse_str(c.id)] = {parse_str(c.user_id)}]
    ELSE IF res.kind = "Ok" /\ c.op = "return_book"
    THEN [holder EXCEPT ![parse_str(c.id)] = NoHolder]
    ELSE holder

\* per user, the books of that user's successful borrows that no successful
\* return has named since, oldest borrow first, after call c has returned res
LentAfter(c, res) ==
    IF res.kind = "Ok" /\ c.op = "borrow_book"
    THEN [lent EXCEPT ![parse_str(c.user_id)] = Append(@, parse_str(c.id))]
    ELSE IF res.kind = "Ok" /\ c.op = "return_book"
    THEN [u \in UserOids |-> SelectSeq(lent[u], LAMBDA b : b # parse_str(c.id))]
    ELSE lent

NoScen == [n |-> 0, id |-> Malformed, user_id |-> Malformed]

(* ---------------------------------------------------------------------- *)
(* Initial state: an empty database, no request in flight                  *)
(* ---------------------------------------------------------------------- *)
Init ==
    /\ books = <<>>
    /\ users = <<>>
    /\ genres = <<>>
    /\ comments = <<>>
    /\ nextBook = 1
    /\ nextUser = 1
    /\ pc = [p \in Procs |-> "idle"]
    /\ call = [p \in Procs |-> NoCall]
    /\ book = [p \in Procs |-> NoLocal]
    /\ user = [p \in Procs |-> NoLocal]
    /\ hashmap = [p \in Procs |-> <<>>]
    /\ result = [p \in Procs |-> NoResult]
    /\ pre = [p \in Procs |-> [books |-> <<>>, users |-> <<>>]]
    /\ writes = [p \in Procs |-> <<>>]
    /\ holder = [b \in BookOids |-> NoHolder]
    /\ lent = [u \in UserOids |-> <<>>]
    /\ ncalls = 0
    /\ scen = NoScen

(* ---------------------------------------------------------------------- *)
(* Steps shared by every call                                              *)
(* ---------------------------------------------------------------------- *)
\* a request is received: the handler starts and suspends at its first await
Receive(p, c, first) ==
    /\ pc[p] = "idle"
    /\ call' = [call EXCEPT ![p] = c]
    /\ pc' = [pc EXCEPT ![p] = first]
    /\ pre' = [pre EXCEPT ![p] = [books |-> books, users |-> users]]
    /\ writes' = [writes EXCEPT ![p] = <<>>]
    /\ UNCHANGED <<books, users, genres, comments, nextBook, nextUser, book, user, hashmap,
                   result, holder, lent>>

\* the call returns res (or unwinds with a panic)
Complete(p, res) ==
    /\ pc' = [pc EXCEPT ![p] = "done"]
    /\ result' = [result EXCEPT ![p] = res]
    /\ holder' = HolderAfter(call[p], res)
    /\ lent' = LentAfter(call[p], res)
    /\ UNCHANGED <<genres, comments, hashmap, ncalls, scen>>

\* the call goes on to its next await
Goto(p, label) ==
    /\ pc' = [pc EXCEPT ![p] = label]
    /\ UNCHANGED <<genres, comments, hashmap, result, holder, lent, ncalls, scen>>

\* the response is sent and the handler's frame is dropped
Respond(p) ==
    /\ pc[p] = "done"
    /\ pc' = [pc EXCEPT ![p] = "idle"]
    /\ call' = [call EXCEPT ![p] = NoCall]
    /\ book' = [book EXCEPT ![p] = NoLocal]
    /\ user' = [user EXCEPT ![p] = NoLocal]
    /\ hashmap' = [hashmap EXCEPT ![p] = <<>>]
    /\ result' = [result EXCEPT ![p] = NoResult]
    /\ pre' = [pre EXCEPT ![p] = [books |-> <<>>, users |-> <<>>]]
    /\ writes' = [writes EXCEPT ![p] = <<>>]
    /\ UNCHANGED <<books, users, genres, comments, nextBook, nextUser, holder, lent, ncalls, scen>>

(* ---------------------------------------------------------------------- *)
(* Mongo::create_book                                                      *)
(* ---------------------------------------------------------------------- *)
CallCreateBook(p) ==
    /\ nextBook <= MaxBooks
    /\ \E n \in NewBooks : Receive(p, [op |-> "create_book", new |-> n], "cb_insert")
    /\ UNCHANGED <<ncalls, scen>>

create_book_insert(p) ==
    /\ pc[p] = "cb_insert"
    /\ nextBook <= MaxBooks
    /\ books' = insert_one(books, nextBook, BookFrom(call[p].new))
    /\ nextBook' = nextBook + 1
    /\ writes' = [writes EXCEPT ![p] = Append(@, "books")]
    /\ Complete(p, Ok(BookFrom(call[p].new)))
    /\ UNCHANGED <<users, nextUser, call, book, user, pre>>

(* ---------------------------------------------------------------------- *)
(* Mongo::create_user                                                      *)
(* ---------------------------------------------------------------------- *)
CallCreateUser(p) ==
    /\ nextUser <= MaxUsers
    /\ \E n \in NewUsers : Receive(p, [op |-> "create_user", new |-> n], "cu_find_email")
    /\ UNCHANGED <<ncalls, scen>>

create_user_find_email(p) ==
    /\ pc[p] = "cu_find_email"
    /\ LET u == UserFrom(call[p].new)
       IN IF ~parse_date_ok(u.birth_date)
          THEN Complete(p, Err("Invalid date format"))
          ELSE IF \E o \in DOMAIN users : users[o].email = u.email
          THEN Complete(p, Err("User already exist"))
          ELSE Goto(p, "cu_insert")
    /\ UNCHANGED <<books, users, nextBook, nextUser, call, book, user, pre, writes>>

create_user_insert(p) ==
    /\ pc[p] = "cu_insert"
    /\ nextUser <= MaxUsers
    /\ users' = insert_one(users, nextUser, UserFrom(call[p].new))
    /\ nextUser' = nextUser + 1
    /\ writes' = [writes EXCEPT ![p] = Append(@, "users")]
    /\ Complete(p, Ok(UserFrom(call[p].new)))
    /\ UNCHANGED <<books, nextBook, call, book, user, pre>>

(* ---------------------------------------------------------------------- *)
(* Mongo::borrow_book                                                      *)
(* ---------------------------------------------------------------------- *)
\* mutant of borrow_rejects: the availability test is missing
borrow_rejects_never(b) == FALSE

\* if !book.availability { return Err("Book not available") }
borrow_rejects(b) == ~b.availability

CallBorrowBook(p, ids, uids, max) ==
    /\ ncalls < max
    /\ \E id \in ids, uid \in uids :
           Receive(p, [op |-> "borrow_book", id |-> id, user_id |-> uid], "bb_find_book")
    /\ ncalls' = ncalls + 1
    /\ UNCHANGED scen

\* find_one on books, then the unwrap of the Option
borrow_book_find_book(p) ==
    /\ pc[p] = "bb_find_book"
    /\ LET id == call[p].id
       IN IF ~parse_str_ok(id)
          THEN Complete(p, Panic("parse_str")) /\ UNCHANGED book
          ELSE LET cursor == find_one(books, parse_str(id))
               IN IF cursor = <<>>
                  THEN Complete(p, Panic("unwrap")) /\ UNCHANGED book
                  ELSE /\ book' = [book EXCEPT ![p] = cursor[1]]
                       /\ Goto(p, "bb_find_user")
    /\ UNCHANGED <<books, users, nextBook, nextUser, call, user, pre, writes>>

\* find_one on users, the unwrap, from_bson, the availability test and the two
\* local changes
borrow_book_find_user(p) ==
    /\ pc[p] = "bb_find_user"
    /\ LET id == call[p].id
           user_id == call[p].user_id
       IN IF ~parse_str_ok(user_id)
          THEN Complete(p, Panic("parse_str")) /\ UNCHANGED <<book, user>>
          ELSE LET cursor == find_one(users, parse_str(user_id))
               IN IF cursor = <<>>
                  THEN Complete(p, Panic("unwrap")) /\ UNCHANGED <<book, user>>
                  ELSE IF ~from_bson_user_ok(cursor[1])
                  THEN /\ Complete(p, Err("invalid type: string, expected a sequence"))
                       /\ UNCHANGED <<book, user>>
                  ELSE IF borrow_rejects(book[p])
                  THEN /\ Complete(p, Err("Book not available"))
                       /\ user' = [user EXCEPT ![p] = cursor[1]]
                       /\ UNCHANGED book
                  ELSE /\ book' = [book EXCEPT ![p] = [@ EXCEPT !.availability = FALSE]]
                       /\ user' = [user EXCEPT ![p] =
                                     [cursor[1] EXCEPT !.borrowed_books = push(@, id)]]
                       /\ Goto(p, "bb_update_book")
    /\ UNCHANGED <<books, users, nextBook, nextUser, call, pre, writes>>

\* mutant of borrow_book_update_book: the update is conditional on the stored
\* availability still being true, and the call is rejected otherwise
borrow_book_update_book_cas(p) ==
    /\ pc[p] = "bb_update_book"
    /\ LET oid == parse_str(call[p].id)
       IN IF oid \in DOMAIN books /\ books[oid].availability
          THEN /\ books' = update_one(books, oid, book[p])
               /\ writes' = [writes EXCEPT ![p] = Append(@, "books")]
               /\ Goto(p, "bb_update_user")
          ELSE /\ Complete(p, Err("Book not available"))
               /\ UNCHANGED <<books, writes>>
    /\ UNCHANGED <<users, nextBook, nextUser, call, book, user, pre>>

\* update_one on books with {"$set": book}
borrow_book_update_book(p) ==
    /\ pc[p] = "bb_update_book"
    /\ books' = update_one(books, parse_str(call[p].id), book[p])
    /\ writes' = [writes EXCEPT ![p] = Append(@, "books")]
    /\ Goto(p, "bb_update_user")
    /\ UNCHANGED <<users, nextBook, nextUser, call, book, user, pre>>

\* update_one on users with {"$set": user}, then Ok((user, book))
borrow_book_update_user(p) ==
    /\ pc[p] = "bb_update_user"
    /\ users' = update_one(users, parse_str(call[p].user_id), user[p])
    /\ writes' = [writes EXCEPT ![p] = Append(@, "users")]
    /\ Complete(p, Ok([user |-> user[p], book |-> book[p]]))
    /\ UNCHANGED <<books, nextBook, nextUser, call, book, user, pre>>

(* ---------------------------------------------------------------------- *)
(* Mongo::return_book                                                      *)
(* ---------------------------------------------------------------------- *)
\* mutant of return_rejects: the availability test is missing
return_rejects_never(b) == FALSE

\* if book.availability { return Err("Book not borrowed") }
return_rejects(b) == b.availability

CallReturnBook(p, ids, uids, max) ==
    /\ ncalls < max
    /\ \E id \in ids, uid \in uids :
           Receive(p, [op |-> "return_book", id |-> id, user_id |-> uid], "rb_find_book")
    /\ ncalls' = ncalls + 1
    /\ UNCHANGED scen

return_book_find_book(p) ==
    /\ pc[p] = "rb_find_book"
    /\ LET id == call[p].id
       IN IF ~parse_str_ok(id)
          THEN Complete(p, Panic("parse_str")) /\ UNCHANGED book
          ELSE LET cursor == find_one(books, parse_str(id))
               IN IF cursor = <<>>
                  THEN Complete(p, Panic("unwrap")) /\ UNCHANGED book
                  ELSE /\ book' = [book EXCEPT ![p] = cursor[1]]
                       /\ Goto(p, "rb_find_user")
    /\ UNCHANGED <<books, users, nextBook, nextUser, call, user, pre, writes>>

return_book_find_user(p) ==
    /\ pc[p] = "rb_find_user"
    /\ LET id == call[p].id
           user_id == call[p].user_id
       IN IF ~parse_str_ok(user_id)
          THEN Complete(p, Panic("parse_str")) /\ UNCHANGED <<book, user>>
          ELSE LET cursor == find_one(users, parse_str(user_id))
               IN IF cursor = <<>>
                  THEN Complete(p, Panic("unwrap")) /\ UNCHANGED <<book, user>>
                  ELSE IF ~from_bson_user_ok(cursor[1])
                  THEN /\ Complete(p, Err("invalid type: string, expected a sequence"))
                       /\ UNCHANGED <<book, user>>
                  ELSE IF return_rejects(book[p])
                  THEN /\ Complete(p, Err("Book not borrowed"))
                       /\ user' = [user EXCEPT ![p] = cursor[1]]
                       /\ UNCHANGED book
                  ELSE /\ book' = [book EXCEPT ![p] = [@ EXCEPT !.availability = TRUE]]
                       /\ user' = [user EXCEPT ![p] =
                                     [cursor[1] EXCEPT !.borrowed_books = retain_ne(@, id)]]
                       /\ Goto(p, "rb_update_book")
    /\ UNCHANGED <<books, users, nextBook, nextUser, call, pre, writes>>

return_book_update_book(p) ==
    /\ pc[p] = "rb_update_book"
    /\ books' = update_one(books, parse_str(call[p].id), book[p])
    /\ writes' = [writes EXCEPT ![p] = Append(@, "books")]
    /\ Goto(p, "rb_update_user")
    /\ UNCHANGED <<users, nextBook, nextUser, call, book, user, pre>>

return_book_update_user(p) ==
    /\ pc[p] = "rb_update_user"
    /\ users' = update_one(users, parse_str(call[p].user_id), user[p])
    /\ writes' = [writes EXCEPT ![p] = Append(@, "users")]
    /\ Complete(p, Ok([user |-> user[p], book |-> book[p]]))
    /\ UNCHANGED <<books, nextBook, nextUser, call, book, user, pre>>

(* ---------------------------------------------------------------------- *)
(* The update handlers of book.rs and user.rs: the request body is an      *)
(* object of optional fields (an absent field is the empty tuple, a     *)
(* present one the tuple of its value), from which the handler fills a     *)
(* HashMap of the fields to set.                                           *)
(* ---------------------------------------------------------------------- *)
None == <<>>
Some(x) == <<x>>
Opt(S) == {None} \cup {Some(x) : x \in S}

UpdateBooks ==
    [title : Opt({"Emma"}), author : Opt({"Austen"}), year : Opt({1815}),
     resume : Opt({"match"}), availability : Opt({FALSE}), gender_id : Opt({"g1"})]

BorrowedLists == {<<>>, <<to_hex(1)>>, <<to_hex(1), to_hex(2)>>}

UpdateUsers ==
    [first_name : Opt({"Amy"}), last_name : Opt({"Roe"}), email : Opt({"amy@lib"}),
     birth_date : Opt({"1999-12-31"}), borrowed_books : Opt(BorrowedLists),
     role : Opt({"admin"})]

\* enum Value of lib.rs
ValueText(t) == [kind |-> "Text", v |-> t]
ValueInt(i) == [kind |-> "Int", v |-> i]
ValueBool(b) == [kind |-> "Bool", v |-> b]

\* HashMap::insert
insert(m, k, v) == [x \in (DOMAIN m) \cup {k} |-> IF x = k THEN v ELSE m[x]]

\* mutant of update_book_all_none: the test is missing
update_book_all_none_never(b) == FALSE

\* the test that makes update_book return get_book_by_id(id) without an update
update_book_all_none(b) ==
    /\ b.title = None /\ b.author = None /\ b.year = None
    /\ b.gender_id = None /\ b.resume = None /\ b.availability = None

\* the six matches of update_book
update_book_hashmap(b) ==
    LET h0 == <<>>
        h1 == IF b.title # None THEN insert(h0, "title", ValueText(b.title[1])) ELSE h0
        h2 == IF b.author # None THEN insert(h1, "author", ValueText(b.author[1])) ELSE h1
        h3 == IF b.year # None THEN insert(h2, "year", ValueInt(b.year[1])) ELSE h2
        h4 == IF b.resume # None THEN insert(h3, "resume", ValueText(b.resume[1])) ELSE h3
        h5 == IF b.gender_id # None THEN insert(h4, "gender_id", ValueText(b.gender_id[1])) ELSE h4
        h6 == IF b.availability # None
              THEN insert(h5, "availability", ValueBool(b.availability[1])) ELSE h5
    IN h6

\* for book in borrowed_books { hashmap.insert("borrowed_books", book) }
RECURSIVE insert_each(_, _, _)
insert_each(m, k, v) ==
    IF v = <<>> THEN m ELSE insert_each(insert(m, k, Head(v)), k, Tail(v))

\* the matches and the loop of update_user
update_user_hashmap(u) ==
    LET h0 == <<>>
        h1 == IF u.first_name # None THEN insert(h0, "first_name", u.first_name[1]) ELSE h0
        h2 == IF u.last_name # None THEN insert(h1, "last_name", u.last_name[1]) ELSE h1
        h3 == IF u.email # None THEN insert(h2, "email", u.email[1]) ELSE h2
        h4 == IF u.birth_date # None THEN insert(h3, "birth_date", u.birth_date[1]) ELSE h3
        h5 == IF u.borrowed_books # None
              THEN insert_each(h4, "borrowed_books", u.borrowed_books[1]) ELSE h4
        h6 == IF u.role # None THEN insert(h5, "role", u.role[1]) ELSE h5
    IN h6

CallUpdateBook(p) ==
    /\ \E id \in CanonBookIds, b \in UpdateBooks :
          Receive(p, [op |-> "update_book", id |-> id, body |-> b], "ub_build")
    /\ UNCHANGED <<ncalls, scen>>

\* book.rs update_book up to its first await
update_book_build(p) ==
    /\ pc[p] = "ub_build"
    /\ IF update_book_all_none(call[p].body)
       THEN /\ pc' = [pc EXCEPT ![p] = "ub_get_book_by_id"]
            /\ UNCHANGED hashmap
       ELSE /\ pc' = [pc EXCEPT ![p] = "ub_update_one"]
            /\ hashmap' = [hashmap EXCEPT ![p] = update_book_hashmap(call[p].body)]
    /\ UNCHANGED <<books, users, genres, comments, nextBook, nextUser, call, book, user, result,
                   pre, writes, holder, lent, ncalls, scen>>

CallUpdateUser(p) ==
    /\ \E id \in CanonUserIds, u \in UpdateUsers :
          Receive(p, [op |-> "update_user", id |-> id, body |-> u], "uu_build")
    /\ UNCHANGED <<ncalls, scen>>

\* user.rs update_user up to its first await
update_user_build(p) ==
    /\ pc[p] = "uu_build"
    /\ pc' = [pc EXCEPT ![p] = "uu_update_one"]
    /\ hashmap' = [hashmap EXCEPT ![p] = update_user_hashmap(call[p].body)]
    /\ UNCHANGED <<books, users, genres, comments, nextBook, nextUser, call, book, user, result,
                   pre, writes, holder, lent, ncalls, scen>>

(* ---------------------------------------------------------------------- *)
(* Mongo::get_book_by_id, Mongo::update_book, Mongo::update_user           *)
(* ---------------------------------------------------------------------- *)
\* a request of the update handlers that counts against a budget of max requests
CallUpdateBookIn(p, ids, bodies, max) ==
    /\ ncalls < max
    /\ \E id \in ids, b \in bodies :
          Receive(p, [op |-> "update_book", id |-> id, body |-> b], "ub_build")
    /\ ncalls' = ncalls + 1
    /\ UNCHANGED scen

CallUpdateUserIn(p, ids, bodies, max) ==
    /\ ncalls < max
    /\ \E id \in ids, u \in bodies :
          Receive(p, [op |-> "update_user", id |-> id, body |-> u], "uu_build")
    /\ ncalls' = ncalls + 1
    /\ UNCHANGED scen

\* find_one on books by id, then the unwrap of the Option
get_book_by_id(p) ==
    /\ pc[p] = "ub_get_book_by_id"
    /\ LET id == call[p].id
       IN IF ~parse_str_ok(id)
          THEN Complete(p, Panic("parse_str"))
          ELSE LET cursor == find_one(books, parse_str(id))
               IN IF cursor = <<>>
                  THEN Complete(p, Panic("unwrap"))
                  ELSE Complete(p, Ok(cursor[1]))
    /\ UNCHANGED <<books, users, nextBook, nextUser, call, book, user, pre, writes>>

\* the loop of Mongo::update_book: each Value is inserted as the BSON value of
\* its own variant
book_query(h) == [k \in DOMAIN h |-> h[k].v]

\* update_one on books with {"$set": query}
update_book_update_one(p) ==
    /\ pc[p] = "ub_update_one"
    /\ IF ~parse_str_ok(call[p].id)
       THEN /\ Complete(p, Panic("parse_str"))
            /\ UNCHANGED <<books, writes>>
       ELSE /\ books' = update_one(books, parse_str(call[p].id), book_query(hashmap[p]))
            /\ writes' = [writes EXCEPT ![p] = Append(@, "books")]
            /\ Goto(p, "ub_find_one")
    /\ UNCHANGED <<users, nextBook, nextUser, call, book, user, pre>>

\* find_one on books, the unwrap, Ok(book)
update_book_find_one(p) ==
    /\ pc[p] = "ub_find_one"
    /\ LET cursor == find_one(books, parse_str(call[p].id))
       IN IF cursor = <<>>
          THEN Complete(p, Panic("unwrap"))
          ELSE Complete(p, Ok(cursor[1]))
    /\ UNCHANGED <<books, users, nextBook, nextUser, call, book, user, pre, writes>>

\* the loop of Mongo::update_user: every value of the HashMap is a String and is
\* inserted as a BSON string
user_query(h) ==
    [k \in DOMAIN h |-> IF k = "borrowed_books" THEN bson_string(h[k]) ELSE h[k]]

\* update_one on users with {"$set": query}.  An empty {"$set": {}} is refused
\* by servers before 5.0 and is a no-op from 5.0 on: both outcomes are kept.
update_user_update_one(p) ==
    /\ pc[p] = "uu_update_one"
    /\ IF ~parse_str_ok(call[p].id)
       THEN /\ Complete(p, Panic("parse_str"))
            /\ UNCHANGED <<users, writes>>
       ELSE IF hashmap[p] = <<>>
       THEN \/ /\ Complete(p, Err("'$set' is empty"))
               /\ UNCHANGED <<users, writes>>
            \/ /\ Goto(p, "uu_find_one")
               /\ UNCHANGED <<users, writes>>
       ELSE /\ users' = update_one(users, parse_str(call[p].id), user_query(hashmap[p]))
            /\ writes' = [writes EXCEPT ![p] = Append(@, "users")]
            /\ Goto(p, "uu_find_one")
    /\ UNCHANGED <<books, nextBook, nextUser, call, book, user, pre>>

\* find_one on users, the unwrap, from_bson, Ok(user)
update_user_find_one(p) ==
    /\ pc[p] = "uu_find_one"
    /\ LET cursor == find_one(users, parse_str(call[p].id))
       IN IF cursor = <<>>
          THEN Complete(p, Panic("unwrap"))
          ELSE IF ~from_bson_user_ok(cursor[1])
          THEN Complete(p, Err("invalid type: string, expected a sequence"))
          ELSE Complete(p, Ok(cursor[1]))
    /\ UNCHANGED <<books, users, nextBook, nextUser, call, book, user, pre, writes>>

(* ---------------------------------------------------------------------- *)
(* The search handlers of book.rs and user.rs, Mongo::search_book and      *)
(* Mongo::search_user                                                      *)
(* ---------------------------------------------------------------------- *)
SearchBooks == [title : Opt({"Dune", "Emma"}), author : Opt({"Herbert"}), year : Opt({1965, 1815})]
SearchUsers == [first_name : Opt({"Ann"}), last_name : Opt({"Lee"}), email : Opt({"ann@lib", "zoe@lib"})]

\* the BSON type under which each field of a Book is stored: create_book and
\* borrow_book serialize the struct, update_book inserts the Value of the field
BookBson ==
    [title |-> "String", author |-> "String", year |-> "Int32", resume |-> "String",
     availability |-> "Boolean", gender_id |-> "String"]

\* the BSON type under which each field of a User is stored
UserBson(doc) ==
    [first_name |-> "String", last_name |-> "String", email |-> "String",
     birth_date |-> "String", role |-> "String",
     borrowed_books |-> IF is_array(doc.borrowed_books) THEN "Array" ELSE "String"]

\* i32::to_string
to_string(i) == ToString(i)

\* a stored document matches an equality filter whose values are all BSON
\* strings: a value of another BSON type equals no string
matches(doc, types, query) ==
    \A k \in DOMAIN query : types[k] = "String" /\ doc[k] = query[k]

\* the documents of coll whose ids are in S, in the order of their ids
RECURSIVE in_order(_, _, _)
in_order(coll, S, o) ==
    IF o > MaxBooks + MaxUsers THEN <<>>
    ELSE (IF o \in S THEN <<coll[o]>> ELSE <<>>) \o in_order(coll, S, o + 1)

\* Collection::find(query) on books and on users, the cursor drained
find_books(query) == in_order(books, {o \in DOMAIN books : matches(books[o], BookBson, query)}, 1)
find_users(query) ==
    in_order(users, {o \in DOMAIN users : matches(users[o], UserBson(users[o]), query)}, 1)

\* mutant of search_book_all_none: the test is missing
search_book_all_none_never(b) == FALSE

\* the test that makes search_book return an empty list
search_book_all_none(b) == b.title = None /\ b.author = None /\ b.year = None

\* the three matches of search_book: every value of the HashMap is a String
search_book_hashmap(b) ==
    LET h0 == <<>>
        h1 == IF b.title # None THEN insert(h0, "title", b.title[1]) ELSE h0
        h2 == IF b.author # None THEN insert(h1, "author", b.author[1]) ELSE h1
        h3 == IF b.year # None THEN insert(h2, "year", to_string(b.year[1])) ELSE h2
    IN h3

CallSearchBook(p) ==
    /\ \E b \in SearchBooks : Receive(p, [op |-> "search_book", body |-> b], "sb_build")
    /\ UNCHANGED <<ncalls, scen>>

\* book.rs search_book up to its first await
search_book_build(p) ==
    /\ pc[p] = "sb_build"
    /\ IF search_book_all_none(call[p].body)
       THEN Complete(p, Ok(<<>>))
       ELSE /\ pc' = [pc EXCEPT ![p] = "sb_find"]
            /\ hashmap' = [hashmap EXCEPT ![p] = search_book_hashmap(call[p].body)]
            /\ UNCHANGED <<genres, comments, result, holder, lent, ncalls, scen>>
    /\ UNCHANGED <<books, users, nextBook, nextUser, call, book, user, pre, writes>>

\* Mongo::search_book: find with the filter of the HashMap, Ok(books)
search_book_find(p) ==
    /\ pc[p] = "sb_find"
    /\ Complete(p, Ok(find_books(hashmap[p])))
    /\ UNCHANGED <<books, users, nextBook, nextUser, call, book, user, pre, writes>>

\* mutant of search_user_all_none: the test is missing
search_user_all_none_never(u) == FALSE

\* the test that makes search_user fail
search_user_all_none(u) == u.first_name = None /\ u.last_name = None /\ u.email = None

\* the three matches of search_user
search_user_hashmap(u) ==
    LET h0 == <<>>
        h1 == IF u.first_name # None THEN insert(h0, "first_name", u.first_name[1]) ELSE h0
        h2 == IF u.last_name # None THEN insert(h1, "last_name", u.last_name[1]) ELSE h1
        h3 == IF u.email # None THEN insert(h2, "email", u.email[1]) ELSE h2
    IN h3

CallSearchUser(p) ==
    /\ \E u \in SearchUsers : Receive(p, [op |-> "search_user", body |-> u], "su_build")
    /\ UNCHANGED <<ncalls, scen>>

\* user.rs search_user up to its first await
search_user_build(p) ==
    /\ pc[p] = "su_build"
    /\ IF search_user_all_none(call[p].body)
       THEN Complete(p, Err("No search criteria provided"))
       ELSE /\ pc' = [pc EXCEPT ![p] = "su_find"]
            /\ hashmap' = [hashmap EXCEPT ![p] = search_user_hashmap(call[p].body)]
            /\ UNCHANGED <<genres, comments, result, holder, lent, ncalls, scen>>
    /\ UNCHANGED <<books, users, nextBook, nextUser, call, book, user, pre, writes>>

\* Mongo::search_user: find with the filter of the HashMap, from_bson on each
\* document found, Ok(users)
search_user_find(p) ==
    /\ pc[p] = "su_find"
    /\ LET found == find_users(hashmap[p])
       IN IF \E i \in 1..Len(found) : ~from_bson_user_ok(found[i])
          THEN Complete(p, Err("invalid type: string, expected a sequence"))
          ELSE Complete(p, Ok(found))
    /\ UNCHANGED <<books, users, nextBook, nextUser, call, book, user, pre, writes>>

(* ---------------------------------------------------------------------- *)
(* Mongo::delete_book and Mongo::delete_user                               *)
(* ---------------------------------------------------------------------- *)
\* delete_one({_id: oid})
delete_one(coll, oid) == [o \in (DOMAIN coll) \ {oid} |-> coll[o]]

CallDeleteBook(p) ==
    /\ \E id \in CanonBookIds \cup {Malformed} :
          Receive(p, [op |-> "delete_book", id |-> id], "db_find_one")
    /\ UNCHANGED <<ncalls, scen>>

\* find_one on books, the unwrap of the Option
delete_book_find_one(p) ==
    /\ pc[p] = "db_find_one"
    /\ LET id == call[p].id
       IN IF ~parse_str_ok(id)
          THEN Complete(p, Panic("parse_str")) /\ UNCHANGED book
          ELSE LET cursor == find_one(books, parse_str(id))
               IN IF cursor = <<>>
                  THEN Complete(p, Panic("unwrap")) /\ UNCHANGED book
                  ELSE /\ book' = [book EXCEPT ![p] = cursor[1]]
                       /\ Goto(p, "db_delete_one")
    /\ UNCHANGED <<books, users, nextBook, nextUser, call, user, pre, writes>>

\* delete_one on books, Ok(book)
delete_book_delete_one(p) ==
    /\ pc[p] = "db_delete_one"
    /\ books' = delete_one(books, parse_str(call[p].id))
    /\ writes' = [writes EXCEPT ![p] = Append(@, "books")]
    /\ Complete(p, Ok(book[p]))
    /\ UNCHANGED <<users, nextBook, nextUser, call, book, user, pre>>

CallDeleteUser(p) ==
    /\ \E id \in CanonUserIds \cup {Malformed} :
          Receive(p, [op |-> "delete_user", id |-> id], "du_find_one")
    /\ UNCHANGED <<ncalls, scen>>

\* find_one on users, the unwrap of the Option, from_bson
delete_user_find_one(p) ==
    /\ pc[p] = "du_find_one"
    /\ LET id == call[p].id
       IN IF ~parse_str_ok(id)
          THEN Complete(p, Panic("parse_str")) /\ UNCHANGED user
          ELSE LET cursor == find_one(users, parse_str(id))
               IN IF cursor = <<>>
                  THEN Complete(p, Panic("unwrap")) /\ UNCHANGED user
                  ELSE IF ~from_bson_user_ok(cursor[1])
                  THEN /\ Complete(p, Err("invalid type: string, expected a sequence"))
                       /\ UNCHANGED user
                  ELSE /\ user' = [user EXCEPT ![p] = cursor[1]]
                       /\ Goto(p, "du_delete_one")
    /\ UNCHANGED <<books, users, nextBook, nextUser, call, book, pre, writes>>

\* delete_one on users, Ok(user)
delete_user_delete_one(p) ==
    /\ pc[p] = "du_delete_one"
    /\ users' = delete_one(users, parse_str(call[p].id))
    /\ writes' = [writes EXCEPT ![p] = Append(@, "users")]
    /\ Complete(p, Ok(user[p]))
    /\ UNCHANGED <<books, nextBook, nextUser, call, book, user, pre>>

(* ---------------------------------------------------------------------- *)
(* Mongo::create_genre and Mongo::get_books_by_genre                       *)
(* ---------------------------------------------------------------------- *)
GenreNames == {"scifi", "novel"}
\* the names a request may ask for: the stored ones, another case, another name
AskedNames == GenreNames \cup {"Scifi", "poetry"}

\* {"$toString": "$_id"} on the i-th genre inserted
genre_id_str(i) == "g" \o ToString(i)

CallCreateGenre(p) ==
    /\ Len(genres) < MaxGenres
    /\ \E n \in GenreNames : Receive(p, [op |-> "create_genre", genre |-> [name |-> n]], "cg_find_name")
    /\ UNCHANGED <<ncalls, scen>>

\* find_one({name}) on genres
create_genre_find_name(p) ==
    /\ pc[p] = "cg_find_name"
    /\ IF \E i \in 1..Len(genres) : genres[i].name = call[p].genre.name
       THEN Complete(p, Err("Genre already exist"))
       ELSE Goto(p, "cg_insert")
    /\ UNCHANGED <<books, users, nextBook, nextUser, call, book, user, pre, writes>>

\* insert_one on genres, Ok(genre)
create_genre_insert(p) ==
    /\ pc[p] = "cg_insert"
    /\ Len(genres) < MaxGenres
    /\ genres' = Append(genres, call[p].genre)
    /\ writes' = [writes EXCEPT ![p] = Append(@, "genres")]
    /\ pc' = [pc EXCEPT ![p] = "done"]
    /\ result' = [result EXCEPT ![p] = Ok(call[p].genre)]
    /\ UNCHANGED <<books, users, comments, nextBook, nextUser, call, book, user, hashmap, pre,
                   holder, lent, ncalls, scen>>

\* mutant of project_genre: gender_id is projected as stored
project_genre_as_stored(b, genre_name) == b

\* the $project of the lookup: gender_id becomes the name of the genre
project_genre(b, genre_name) == [b EXCEPT !.gender_id = genre_name]

\* the $lookup of one genre: the books whose gender_id is the genre's id as a
\* string, projected
lookup_books(i) ==
    LET S == {o \in DOMAIN books : books[o].gender_id = genre_id_str(i)}
    IN in_order([o \in S |-> project_genre(books[o], genres[i].name)], S, 1)

\* $match on the name, $lookup, $unwind and $replaceRoot, genre after genre
RECURSIVE aggregate_genres(_, _)
aggregate_genres(genre_name, i) ==
    IF i > Len(genres) THEN <<>>
    ELSE (IF genres[i].name = genre_name THEN lookup_books(i) ELSE <<>>)
         \o aggregate_genres(genre_name, i + 1)

CallGetBooksByGenre(p) ==
    /\ \E n \in AskedNames : Receive(p, [op |-> "get_books_by_genre", name |-> n], "gg_aggregate")
    /\ UNCHANGED <<ncalls, scen>>

\* aggregate on genres, the cursor drained, Ok(books)
get_books_by_genre(p) ==
    /\ pc[p] = "gg_aggregate"
    /\ Complete(p, Ok(aggregate_genres(call[p].name, 1)))
    /\ UNCHANGED <<books, users, nextBook, nextUser, call, book, user, pre, writes>>

(* ---------------------------------------------------------------------- *)
(* Mongo::create_comment and Mongo::get_all_books_by_operator_rating       *)
(* ---------------------------------------------------------------------- *)
\* book_id is free text: here the id of a book as the service prints it,
\* whether the book is stored or not
CommentBookIds == {to_hex(1), to_hex(2)}
Ratings == {2, 4, 6}
NewComments ==
    [user_id : {to_hex(1)}, book_id : CommentBookIds, comment : {"fine"}, rating : Ratings]

\* the operator strings of a request and the thresholds (f64 values without a
\* fraction)
OperatorStrs == {"=", "!=", ">", ">=", "<", "<=", "~"}
Thresholds == {4, 5}

\* the match of get_all_books_by_search_rating: the OperatorRating of a string
operator_rating(o, value) ==
    IF o \in {"=", "!=", ">", ">=", "<", "<="}
    THEN [op |-> o, value |-> value]
    ELSE [op |-> "=", value |-> value]

CallCreateComment(p) ==
    /\ Len(comments) < MaxComments
    /\ \E c \in NewComments : Receive(p, [op |-> "create_comment", new |-> c], "cc_insert")
    /\ UNCHANGED <<ncalls, scen>>

\* insert_one on comments, Ok(comment)
create_comment_insert(p) ==
    /\ pc[p] = "cc_insert"
    /\ Len(comments) < MaxComments
    /\ comments' = Append(comments, call[p].new)
    /\ writes' = [writes EXCEPT ![p] = Append(@, "comments")]
    /\ pc' = [pc EXCEPT ![p] = "done"]
    /\ result' = [result EXCEPT ![p] = Ok(call[p].new)]
    /\ UNCHANGED <<books, users, genres, nextBook, nextUser, call, book, user, hashmap, pre,
                   holder, lent, ncalls, scen>>

\* $addFields book_id_str, $lookup from comments, $unwind: the ratings of the
\* comments whose book_id is the id of book o as a string
lookup_ratings(o) ==
    LET mine == SelectSeq(comments, LAMBDA c : c.book_id = to_hex(o))
    IN [i \in 1..Len(mine) |-> mine[i].rating]

RECURSIVE sum(_)
sum(v) == IF v = <<>> THEN 0 ELSE Head(v) + sum(Tail(v))

\* mutant of matches_rating: $gte is read as $gt
matches_rating_gt(r, v) ==
    LET n == Len(v)
        t == r.value * n
    IN IF n = 0 THEN r.op = "!="
       ELSE CASE r.op = "=" -> sum(v) = t
              [] r.op = "!=" -> sum(v) # t
              [] r.op = ">" -> sum(v) > t
              [] r.op = ">=" -> sum(v) > t
              [] r.op = "<" -> sum(v) < t
              [] r.op = "<=" -> sum(v) <= t

\* $group with $avg, then $match {average_rating: operator}.  The average of
\* the ratings v is sum(v) / Len(v), compared with the threshold without the
\* division; the $avg of no rating is null, which $ne matches and no other
\* operator does
matches_rating(r, v) ==
    LET n == Len(v)
        t == r.value * n
    IN IF n = 0 THEN r.op = "!="
       ELSE CASE r.op = "=" -> sum(v) = t
              [] r.op = "!=" -> sum(v) # t
              [] r.op = ">" -> sum(v) > t
              [] r.op = ">=" -> sum(v) >= t
              [] r.op = "<" -> sum(v) < t
              [] r.op = "<=" -> sum(v) <= t

\* the orders in which a cursor may deliver the documents of a $group
Orders(v) == {[i \in 1..Len(v) |-> v[f[i]]] : f \in Permutations(1..Len(v))}

CallBooksByRating(p) ==
    /\ \E o \in OperatorStrs, t \in Thresholds :
          Receive(p, [op |-> "get_all_books_by_operator_rating", operator |-> o, rating |-> t],
                  "br_aggregate")
    /\ UNCHANGED <<ncalls, scen>>

\* aggregate on books, the cursor drained, from_bson into Book, Ok(books)
get_all_books_by_operator_rating(p) ==
    /\ pc[p] = "br_aggregate"
    /\ LET r == operator_rating(call[p].operator, call[p].rating)
           S == {o \in DOMAIN books : matches_rating(r, lookup_ratings(o))}
       IN \E v \in Orders(in_order(books, S, 1)) : Complete(p, Ok(v))
    /\ UNCHANGED <<books, users, nextBook, nextUser, call, book, user, pre, writes>>

(* ---------------------------------------------------------------------- *)
(* A store round trip that fails: the driver returns Err and `?` returns   *)
(* it from the call; the write it carried is not applied.                  *)
(* ---------------------------------------------------------------------- *)
RoundTrips ==
    {"bb_find_book", "bb_find_user", "bb_update_book", "bb_update_user",
     "rb_find_book", "rb_find_user", "rb_update_book", "rb_update_user"}

\* mutant of store_error: a compensating write puts the book back as it was read
store_error_compensated(p) ==
    /\ pc[p] \in RoundTrips
    /\ Complete(p, [kind |-> "Err", msg |-> "store error", at |-> pc[p]])
    /\ books' = IF writes[p] = <<"books">>
                THEN update_one(books, parse_str(call[p].id),
                                [book[p] EXCEPT !.availability = ~@])
                ELSE books
    /\ UNCHANGED <<users, nextBook, nextUser, call, book, user, pre, writes>>

store_error(p) ==
    /\ pc[p] \in RoundTrips
    /\ Complete(p, [kind |-> "Err", msg |-> "store error", at |-> pc[p]])
    /\ UNCHANGED <<books, users, nextBook, nextUser, call, book, user, pre, writes>>

(* ---------------------------------------------------------------------- *)
(* Specifications                                                          *)
(* ---------------------------------------------------------------------- *)
Quiescent == \A q \in Procs : pc[q] = "idle"

\* the handler slots are interchangeable: a request takes the first idle one
FirstIdle(p) == p = "p1" \/ pc["p1"] # "idle"

Step(p) ==
    \/ create_book_insert(p)
    \/ create_user_find_email(p)
    \/ create_user_insert(p)
    \/ borrow_book_find_book(p)
    \/ borrow_book_find_user(p)
    \/ borrow_book_update_book(p)
    \/ borrow_book_update_user(p)
    \/ return_book_find_book(p)
    \/ return_book_find_user(p)
    \/ return_book_update_book(p)
    \/ return_book_update_user(p)
    \/ Respond(p)

\* a creation request arrives
CallCreate(p) ==
    \/ CallCreateBook(p)
    \/ CallCreateUser(p)

\* a borrow or return request arrives, its ids drawn from ids and uids; at most
\* max of them are received in a run
CallLend(p, ids, uids, max) ==
    \/ CallBorrowBook(p, ids, uids, max)
    \/ CallReturnBook(p, ids, uids, max)

\* the scripted run borrow(B,A); borrow(B,A); return(B,A); return(B,A) on a
\* book B and a user A that no borrow or return has named before
ScenCall(p) ==
    /\ scen.n < 4
    /\ \E id \in BookIdStrs, uid \in CanonUserIds :
          /\ parse_str_ok(id) /\ parse_str(id) \in DOMAIN books
          /\ parse_str(uid) \in DOMAIN users
          /\ scen.n > 0 => (id = scen.id /\ uid = scen.user_id)
          /\ scen' = [n |-> scen.n + 1, id |-> id, user_id |-> uid]
          /\ IF scen.n < 2
             THEN Receive(p, [op |-> "borrow_book", id |-> id, user_id |-> uid], "bb_find_book")
             ELSE Receive(p, [op |-> "return_book", id |-> id, user_id |-> uid], "rb_find_book")
    /\ UNCHANGED ncalls

\* one request at a time, every round trip succeeds
NextSeq ==
    \E p \in SeqProcs :
        \/ Quiescent /\ (CallCreate(p) \/ CallLend(p, BookIdStrs, UserIdStrs, MaxCalls))
        \/ Step(p)
SpecSeq == Init /\ [][NextSeq]_vars

\* one request at a time, every round trip succeeds, ids as the service prints them
NextCanon ==
    \E p \in SeqProcs :
        \/ Quiescent /\ (CallCreate(p) \/ CallLend(p, CanonBookIds, CanonUserIds, MaxCalls))
        \/ Step(p)
SpecCanon == Init /\ [][NextCanon]_vars

\* one request at a time, any round trip of borrow/return may fail
NextFail ==
    \E p \in SeqProcs :
        \/ Quiescent /\ (CallCreate(p) \/ CallLend(p, CanonBookIds, CanonUserIds, MaxCalls))
        \/ Step(p)
        \/ store_error(p)
SpecFail == Init /\ [][NextFail]_vars

\* the scripted run, among creations of books and users
NextScen ==
    \E p \in SeqProcs :
        \/ Quiescent /\ (CallCreate(p) \/ ScenCall(p))
        \/ Step(p)
SpecScen == Init /\ [][NextScen]_vars

\* the update handlers fill their HashMap from every request body
NextBuild ==
    \E p \in SeqProcs :
        \/ Quiescent /\ (CallUpdateBook(p) \/ CallUpdateUser(p))
        \/ update_book_build(p)
        \/ update_user_build(p)
SpecBuild == Init /\ [][NextBuild]_vars

\* the ids of the stored documents, as the service prints them
StoredBookIds == {to_hex(b) : b \in DOMAIN books}
StoredUserIds == {to_hex(u) : u \in DOMAIN users}

\* books and users are created first, one request at a time; borrow and return
\* requests naming stored documents then run concurrently; every round trip succeeds
Next ==
    \E p \in Procs :
        \/ Quiescent /\ ncalls = 0 /\ FirstIdle(p) /\ CallCreate(p)
        \/ FirstIdle(p) /\ CallLend(p, StoredBookIds, StoredUserIds, MaxConcCalls)
        \/ Step(p)
Spec == Init /\ [][Next]_vars

\* the steps of the update handlers and of the repository calls they make
StepUpdateBook(p) ==
    \/ update_book_build(p)
    \/ get_book_by_id(p)
    \/ update_book_update_one(p)
    \/ update_book_find_one(p)

StepUpdateUser(p) ==
    \/ update_user_build(p)
    \/ update_user_update_one(p)
    \/ update_user_find_one(p)

\* books are created and updated, one request at a time
NextUpdBook ==
    \E p \in SeqProcs :
        \/ Quiescent /\ CallCreateBook(p)
        \/ Quiescent /\ CallUpdateBookIn(p, CanonBookIds, UpdateBooks, MaxUpdates)
        \/ create_book_insert(p)
        \/ StepUpdateBook(p)
        \/ Respond(p)
SpecUpdBook == Init /\ [][NextUpdBook]_vars

\* books and users are created and updated, one request at a time
NextUpdate ==
    \E p \in SeqProcs :
        \/ Quiescent /\ CallCreate(p)
        \/ Quiescent /\ CallUpdateBookIn(p, CanonBookIds, UpdateBooks, MaxUpdates)
        \/ Quiescent /\ CallUpdateUserIn(p, CanonUserIds, UpdateUsers, MaxUpdates)
        \/ create_book_insert(p)
        \/ create_user_find_email(p)
        \/ create_user_insert(p)
        \/ StepUpdateBook(p)
        \/ StepUpdateUser(p)
        \/ Respond(p)
SpecUpdate == Init /\ [][NextUpdate]_vars

\* the update bodies that change what a search can see
SearchedUpdates ==
    {b \in UpdateBooks : b.resume = None /\ b.availability = None /\ b.gender_id = None}

\* books and users are created, books updated, and both searched, one request
\* at a time
NextSearch ==
    \E p \in SeqProcs :
        \/ Quiescent /\ CallCreate(p)
        \/ Quiescent /\ CallUpdateBookIn(p, StoredBookIds, SearchedUpdates, MaxUpdates)
        \/ Quiescent /\ CallSearchBook(p)
        \/ Quiescent /\ CallSearchUser(p)
        \/ create_book_insert(p)
        \/ create_user_find_email(p)
        \/ create_user_insert(p)
        \/ StepUpdateBook(p)
        \/ search_book_build(p)
        \/ search_book_find(p)
        \/ search_user_build(p)
        \/ search_user_find(p)
        \/ Respond(p)
SpecSearch == Init /\ [][NextSearch]_vars

\* books and users are created and deleted, books updated, one request at a time
NextDelete ==
    \E p \in SeqProcs :
        \/ Quiescent /\ CallCreate(p)
        \/ Quiescent /\ CallUpdateBookIn(p, StoredBookIds, SearchedUpdates, MaxUpdates)
        \/ Quiescent /\ CallDeleteBook(p)
        \/ Quiescent /\ CallDeleteUser(p)
        \/ create_book_insert(p)
        \/ create_user_find_email(p)
        \/ create_user_insert(p)
        \/ StepUpdateBook(p)
        \/ delete_book_find_one(p)
        \/ delete_book_delete_one(p)
        \/ delete_user_find_one(p)
        \/ delete_user_delete_one(p)
        \/ Respond(p)
SpecDelete == Init /\ [][NextDelete]_vars

\* the update bodies that set the email alone, to an email a user may be
\* created with
EmailUpdates ==
    [first_name : {None}, last_name : {None}, email : Opt(Emails), birth_date : {None},
     borrowed_books : {None}, role : {None}]

\* users are created and updated by concurrent requests
NextUsers ==
    \E p \in Procs :
        \/ FirstIdle(p) /\ CallCreateUser(p)
        \/ FirstIdle(p) /\ CallUpdateUserIn(p, StoredUserIds, EmailUpdates, MaxUpdates)
        \/ create_user_find_email(p)
        \/ create_user_insert(p)
        \/ StepUpdateUser(p)
        \/ Respond(p)
SpecUsers == Init /\ [][NextUsers]_vars

\* genres are created and asked for by concurrent requests
NextGenres ==
    \E p \in Procs :
        \/ FirstIdle(p) /\ CallCreateGenre(p)
        \/ FirstIdle(p) /\ CallGetBooksByGenre(p)
        \/ create_genre_find_name(p)
        \/ create_genre_insert(p)
        \/ get_books_by_genre(p)
        \/ Respond(p)
SpecGenres == Init /\ [][NextGenres]_vars

\* the update bodies that set the genre of a book alone, or nothing
GenreUpdates ==
    [title : {None}, author : {None}, year : {None}, resume : {None}, availability : {None},
     gender_id : {None} \cup {Some(genre_id_str(i)) : i \in 1..MaxGenres}]

\* books and genres are created, books given a genre, and the books of a genre
\* listed, one request at a time
NextGenreJoin ==
    \E p \in SeqProcs :
        \/ Quiescent /\ CallCreateBook(p)
        \/ Quiescent /\ CallCreateGenre(p)
        \/ Quiescent /\ CallUpdateBookIn(p, StoredBookIds, GenreUpdates, MaxCalls)
        \/ Quiescent /\ CallGetBooksByGenre(p)
        \/ create_book_insert(p)
        \/ create_genre_find_name(p)
        \/ create_genre_insert(p)
        \/ StepUpdateBook(p)
        \/ get_books_by_genre(p)
        \/ Respond(p)
SpecGenreJoin == Init /\ [][NextGenreJoin]_vars

\* the update bodies that set the title alone, or nothing
TitleUpdates ==
    [title : Opt({"Emma"}), author : {None}, year : {None}, resume : {None},
     availability : {None}, gender_id : {None}]

\* books are created and retitled, then commented (more books may follow), and
\* the books listed by their rating, one request at a time
NextRating ==
    \E p \in SeqProcs :
        \/ Quiescent /\ CallCreateBook(p)
        \/ Quiescent /\ comments = <<>> /\ CallUpdateBookIn(p, StoredBookIds, TitleUpdates, MaxUpdates)
        \/ Quiescent /\ CallCreateComment(p)
        \/ Quiescent /\ CallBooksByRating(p)
        \/ create_book_insert(p)
        \/ StepUpdateBook(p)
        \/ create_comment_insert(p)
        \/ get_all_books_by_operator_rating(p)
        \/ Respond(p)
SpecRating == Init /\ [][NextRating]_vars

\* the one user whose borrows and returns make up a run
OneUserIds == {to_hex(1)}

\* a borrow or return request of that user arrives that will succeed: its ids
\* resolve, and the book is available for a borrow, unavailable for a return
CallLendOk(p, ids) ==
    /\ ncalls < MaxCalls
    /\ \E id \in ids, uid \in OneUserIds :
          /\ parse_str_ok(id) /\ parse_str(id) \in DOMAIN books
          /\ parse_str(uid) \in DOMAIN users
          /\ IF books[parse_str(id)].availability
             THEN Receive(p, [op |-> "borrow_book", id |-> id, user_id |-> uid], "bb_find_book")
             ELSE Receive(p, [op |-> "return_book", id |-> id, user_id |-> uid], "rb_find_book")
    /\ ncalls' = ncalls + 1
    /\ UNCHANGED scen

\* books and users are created, and one user borrows and returns books, one
\* request at a time, every call successful
NextOrder ==
    \E p \in SeqProcs :
        \/ Quiescent /\ (CallCreate(p) \/ CallLendOk(p, BookIdStrs))
        \/ Step(p)
SpecOrder == Init /\ [][NextOrder]_vars

\* books and users are created first, one request at a time; borrow and return
\* requests then run concurrently with updates of the title of a book and of
\* the email of a user, all naming stored documents; every round trip succeeds
NextFrame ==
    \E p \in Procs :
        \/ Quiescent /\ ncalls = 0 /\ FirstIdle(p) /\ CallCreate(p)
        \/ FirstIdle(p) /\ CallLend(p, StoredBookIds, StoredUserIds, MaxConcCalls)
        \/ FirstIdle(p) /\ CallUpdateBookIn(p, StoredBookIds, TitleUpdates, MaxConcCalls)
        \/ FirstIdle(p) /\ CallUpdateUserIn(p, StoredUserIds, EmailUpdates, MaxConcCalls)
        \/ Step(p)
        \/ StepUpdateBook(p)
        \/ StepUpdateUser(p)
SpecFrame == Init /\ [][NextFrame]_vars

(* ====================================================================== *)
(* Properties                                                              *)
(* ====================================================================== *)
\* the request of p names a book and a user that both resolved when it arrived
Resolves(p) ==
    /\ parse_str_ok(call[p].id) /\ parse_str(call[p].id) \in DOMAIN pre[p].books
    /\ parse_str_ok(call[p].user_id) /\ parse_str(call[p].user_id) \in DOMAIN pre[p].users

Returned(p, op) == pc[p] = "done" /\ call[p].op = op

BookOf(p) == parse_str(call[p].id)
UserOf(p) == parse_str(call[p].user_id)

\* book b is named by some entry of user u's borrowed_books
Listed(b, u) ==
    \E i \in 1..Len(users[u].borrowed_books) : parse_str(users[u].borrowed_books[i]) = b

NoCallInFlight == \A p \in Procs : pc[p] \in {"idle", "done"}

\* C1: between completed borrow_book and return_book calls, a book's id is in a
\* user's borrowed_books if and only if the book's availability is false and that
\* user is the one whose successful borrow has not been followed by a successful
\* return; so a book is unavailable exactly when some user lists it.
C1_ListedIffHeld ==
    NoCallInFlight =>
        \A b \in DOMAIN books, u \in DOMAIN users :
            Listed(b, u) <=> (~books[b].availability /\ holder[b] = {u})

\* C2: borrow_book running alone on an existing available book and an existing
\* user returns Ok, stores availability = false, stores the user's previous
\* borrowed_books with the id appended once at the end, and returns the stored pair.
C2_BorrowAvailable ==
    \A p \in Procs :
        (Returned(p, "borrow_book") /\ Resolves(p) /\ pre[p].books[BookOf(p)].availability)
        => /\ result[p].kind = "Ok"
           /\ books[BookOf(p)].availability = FALSE
           /\ users[UserOf(p)].borrowed_books
                = Append(pre[p].users[UserOf(p)].borrowed_books, call[p].id)
           /\ result[p].value.user = users[UserOf(p)]
           /\ result[p].value.book = books[BookOf(p)]

C2_Witness ==
    \E p \in Procs :
        /\ Returned(p, "borrow_book") /\ Resolves(p)
        /\ pre[p].books[BookOf(p)].availability
        /\ pre[p].users[UserOf(p)].borrowed_books # <<>>
        /\ result[p].kind = "Ok"

\* C3: borrow_book on a stored book whose availability is false returns the error
\* "Book not available", writes nothing, and leaves the book and the user as stored.
C3_BorrowUnavailable ==
    \A p \in Procs :
        (Returned(p, "borrow_book") /\ Resolves(p) /\ ~pre[p].books[BookOf(p)].availability)
        => /\ result[p] = Err("Book not available")
           /\ writes[p] = <<>>
           /\ books = pre[p].books
           /\ users = pre[p].users

C3_Witness ==
    \E p \in Procs :
        /\ Returned(p, "borrow_book") /\ Resolves(p)
        /\ ~pre[p].books[BookOf(p)].availability
        /\ result[p].kind = "Err"

\* C4: return_book running alone on an existing unavailable book and an existing
\* user returns Ok, stores availability = true, and stores the user's previous
\* borrowed_books without any entry equal to the id, the other entries kept in order.
C4_ReturnBorrowed ==
    \A p \in Procs :
        (Returned(p, "return_book") /\ Resolves(p) /\ ~pre[p].books[BookOf(p)].availability)
        => /\ result[p].kind = "Ok"
           /\ books[BookOf(p)].availability = TRUE
           /\ \A i \in 1..Len(users[UserOf(p)].borrowed_books) :
                  users[UserOf(p)].borrowed_books[i] # call[p].id
           /\ users[UserOf(p)].borrowed_books
                = SelectSeq(pre[p].users[UserOf(p)].borrowed_books,
                            LAMBDA x : x # call[p].id)

\* the return removed two entries and kept a third one
C4_Witness ==
    \E p \in Procs :
        /\ Returned(p, "return_book") /\ Resolves(p)
        /\ result[p].kind = "Ok"
        /\ Len(pre[p].users[UserOf(p)].borrowed_books)
             >= Len(users[UserOf(p)].borrowed_books) + 2

\* C5: return_book on a stored book whose availability is true returns the error
\* "Book not borrowed", writes nothing, and leaves the book and the user as stored.
C5_ReturnAvailable ==
    \A p \in Procs :
        (Returned(p, "return_book") /\ Resolves(p) /\ pre[p].books[BookOf(p)].availability)
        => /\ result[p] = Err("Book not borrowed")
           /\ writes[p] = <<>>
           /\ books = pre[p].books
           /\ users = pre[p].users

C5_Witness ==
    \E p \in Procs :
        /\ Returned(p, "return_book") /\ Resolves(p)
        /\ pre[p].books[BookOf(p)].availability
        /\ result[p].kind = "Err"
        /\ users[UserOf(p)].borrowed_books # <<>>

\* the scripted call number n has returned
ScenReturned(p, n) ==
    /\ scen.n = n /\ pc[p] = "done"
    /\ call[p].op \in {"borrow_book", "return_book"}

ScenBook == parse_str(scen.id)
ScenUser == parse_str(scen.user_id)

\* C6: on a freshly created user A and book B, borrow(B,A) succeeds and leaves B
\* unavailable and A.borrowed_books = [B]; a second borrow(B,A) fails with "Book
\* not available" and changes nothing; return(B,A) succeeds and leaves B available
\* and A.borrowed_books empty, as before the first borrow; a further return(B,A)
\* is rejected.
C6_Scenario ==
    \A p \in Procs :
        /\ ScenReturned(p, 1) =>
              /\ result[p].kind = "Ok"
              /\ books[ScenBook].availability = FALSE
              /\ users[ScenUser].borrowed_books = <<scen.id>>
        /\ ScenReturned(p, 2) =>
              /\ result[p] = Err("Book not available")
              /\ books = pre[p].books /\ users = pre[p].users
              /\ books[ScenBook].availability = FALSE
              /\ users[ScenUser].borrowed_books = <<scen.id>>
        /\ ScenReturned(p, 3) =>
              /\ result[p].kind = "Ok"
              /\ \E n \in NewBooks : books[ScenBook] = BookFrom(n)
              /\ \E n \in NewUsers : users[ScenUser] = UserFrom(n)
        /\ ScenReturned(p, 4) =>
              /\ result[p] = Err("Book not borrowed")
              /\ books = pre[p].books /\ users = pre[p].users

C6_Witness == \E p \in Procs : ScenReturned(p, 4) /\ result[p].kind = "Err"

\* the borrow of p has read availability = true and has not written the user yet
PassedTest(p) == pc[p] \in {"bb_update_book", "bb_update_user"}

\* C7: nothing closes the race between two borrows of one book: a borrow_book that
\* has read availability = true goes on to write and succeed whatever other calls
\* have written since, so two concurrent borrows of one available book by two users
\* both succeed.
C7_BorrowRaceOpen ==
    [][\A p \in Procs :
          (PassedTest(p) /\ pc'[p] = "done")
          => (result'[p].kind = "Ok" /\ writes'[p] = <<"books", "users">>)]_vars

\* two borrows of one book by two users have both succeeded, with no other call
\* received: the book is listed by both users and stored once, unavailable
C7_Witness ==
    \E p, q \in Procs :
        /\ p # q /\ ncalls = 2
        /\ Returned(p, "borrow_book") /\ Returned(q, "borrow_book")
        /\ result[p].kind = "Ok" /\ result[q].kind = "Ok"
        /\ BookOf(p) = BookOf(q) /\ UserOf(p) # UserOf(q)
        /\ Listed(BookOf(p), UserOf(p)) /\ Listed(BookOf(p), UserOf(q))
        /\ ~books[BookOf(p)].availability

\* C8: borrow_book and return_book write the book before the user, as two
\* independent updates: when the user update fails after the book update, the call
\* returns the error, the new availability stays stored, the user's borrowed_books
\* keeps its old value, and nothing restores the book.
C8_PartialFailure ==
    \A p \in Procs :
        call[p].op \in {"borrow_book", "return_book"} =>
            /\ writes[p] \in {<<>>, <<"books">>, <<"books", "users">>}
            /\ (pc[p] = "done" /\ result[p].kind = "Err" /\ writes[p] = <<"books">>)
               => /\ books[BookOf(p)].availability = ~pre[p].books[BookOf(p)].availability
                  /\ users = pre[p].users

C8_Witness ==
    \E p \in Procs :
        /\ Returned(p, "borrow_book")
        /\ result[p].kind = "Err" /\ writes[p] = <<"books">>
        /\ ~books[BookOf(p)].availability
        /\ ~Listed(BookOf(p), UserOf(p))

\* C9: borrow_book and return_book with a book id or a user id that does not
\* resolve to a stored document fail with a NotFound error result, whatever the
\* book's availability, and write nothing.
C9_NotFoundIsError ==
    \A p \in Procs :
        (/\ pc[p] = "done" /\ call[p].op \in {"borrow_book", "return_book"}
         /\ parse_str_ok(call[p].id) /\ parse_str_ok(call[p].user_id)
         /\ ~Resolves(p))
        => (result[p].kind = "Err" /\ writes[p] = <<>> /\ books = pre[p].books /\ users = pre[p].users)

BookUpdateFields == {"title", "author", "year", "resume", "availability", "gender_id"}
UserUpdateFields == {"first_name", "last_name", "email", "birth_date", "borrowed_books", "role"}

Built(p) == pc[p] \in {"ub_get_book_by_id", "ub_update_one", "uu_update_one"}

UpdateFields(p) == IF call[p].op = "update_book" THEN BookUpdateFields ELSE UserUpdateFields

\* C10: the mapping built by the book-update and user-update handlers has keys
\* only among the declared optional fields, and a field is a key exactly when it
\* is present in the request, borrowed_books present with an empty list included.
C10_KeysIffPresent ==
    \A p \in Procs :
        Built(p) =>
            /\ DOMAIN hashmap[p] \subseteq UpdateFields(p)
            /\ \A f \in UpdateFields(p) : f \in DOMAIN hashmap[p] <=> call[p].body[f] # None

\* the document that the update request of p names, when the request arrived
UpdPre(p) == IF call[p].op = "update_book" THEN pre[p].books ELSE pre[p].users
\* the same collection now
UpdNow(p) == IF call[p].op = "update_book" THEN books ELSE users
\* the request supplies something to set: the update document is not empty
Supplies(p) == hashmap[p] # <<>>

\* C11: a partial update (update_book, update_user) of an existing document that
\* runs alone returns Ok, stores under each supplied field the supplied value
\* (of the field's declared type), leaves every other field and every other
\* document as stored, and returns the stored document.
C11_PartialUpdate ==
    \A p \in Procs :
        (/\ pc[p] = "done" /\ call[p].op \in {"update_book", "update_user"}
         /\ parse_str(call[p].id) \in DOMAIN UpdPre(p)
         /\ Supplies(p))
        => LET oid == parse_str(call[p].id)
               old == UpdPre(p)[oid]
               new == UpdNow(p)[oid]
           IN /\ result[p].kind = "Ok"
              /\ result[p].value = new
              /\ \A f \in UpdateFields(p) :
                    new[f] = IF call[p].body[f] # None THEN call[p].body[f][1] ELSE old[f]
              /\ DOMAIN new = DOMAIN old
              /\ \A o \in (DOMAIN UpdPre(p)) \ {oid} : UpdNow(p)[o] = UpdPre(p)[o]

\* every optional field of the request body is absent
AllAbsent(p) == \A f \in DOMAIN call[p].body : call[p].body[f] = None

\* C12: a book update whose six optional fields are all absent issues no store
\* update: it reads the book by id and returns it, and the store is unchanged.
C12_AllAbsentNoUpdate ==
    \A p \in Procs :
        (/\ Returned(p, "update_book") /\ AllAbsent(p)
         /\ parse_str(call[p].id) \in DOMAIN pre[p].books)
        => /\ writes[p] = <<>>
           /\ books = pre[p].books
           /\ users = pre[p].users
           /\ result[p] = Ok(books[parse_str(call[p].id)])

C12_Witness ==
    \E p \in Procs :
        /\ Returned(p, "update_book") /\ AllAbsent(p)
        /\ parse_str(call[p].id) \in DOMAIN pre[p].books
        /\ result[p].kind = "Ok"

\* C13: a book search with title, author and year all absent returns an empty
\* list without a store query, whatever books are stored: the handler returns
\* from the step that reads the body, and the store is not touched.
C13_SearchBookAllAbsent ==
    [][\A p \in Procs :
          (pc[p] = "sb_build" /\ AllAbsent(p) /\ pc'[p] # pc[p])
          => (pc'[p] = "done" /\ result'[p] = Ok(<<>>) /\ books' = books /\ users' = users)]_vars

C13_Witness ==
    \E p \in Procs :
        /\ Returned(p, "search_book") /\ AllAbsent(p)
        /\ result[p] = Ok(<<>>)
        /\ \E b1, b2 \in DOMAIN books : books[b1].title # books[b2].title

\* C14: a user search with first_name, last_name and email all absent fails with
\* the error "No search criteria provided" without a store query.
C14_SearchUserAllAbsent ==
    [][\A p \in Procs :
          (pc[p] = "su_build" /\ AllAbsent(p) /\ pc'[p] # pc[p])
          => (/\ pc'[p] = "done" /\ result'[p] = Err("No search criteria provided")
              /\ books' = books /\ users' = users)]_vars

C14_Witness ==
    \E p \in Procs :
        /\ Returned(p, "search_user") /\ AllAbsent(p)
        /\ result[p].kind = "Err"
        /\ DOMAIN users # {}

\* the stored book agrees with every field the search body provides
Wanted(doc, b) ==
    /\ b.title # None => doc.title = b.title[1]
    /\ b.author # None => doc.author = b.author[1]
    /\ b.year # None => doc.year = b.year[1]

\* C15: a book search with at least one field present returns exactly the stored
\* books whose title, author and year equal every provided field; a search by
\* year alone returns the books whose stored integer year is the given year.
C15_SearchBookEquality ==
    \A p \in Procs :
        (Returned(p, "search_book") /\ ~AllAbsent(p))
        => /\ result[p].kind = "Ok"
           /\ result[p].value
                = in_order(books, {o \in DOMAIN books : Wanted(books[o], call[p].body)}, 1)

\* the collection a delete request addresses, when the request arrived and now
DelPre(p) == IF call[p].op = "delete_book" THEN pre[p].books ELSE pre[p].users
DelNow(p) == IF call[p].op = "delete_book" THEN books ELSE users

\* the delete of p on a stored id has returned the entity and removed it alone
DeletedStored(p) ==
    LET oid == parse_str(call[p].id)
    IN /\ result[p] = Ok(DelPre(p)[oid])
       /\ DelNow(p) = [o \in (DOMAIN DelPre(p)) \ {oid} |-> DelPre(p)[o]]

\* C16: delete_book and delete_user on an existing id return the entity as it was
\* stored before the call, and the id no longer resolves afterwards; on an absent
\* id they fail with an error result and the store is unchanged.
C16_Delete ==
    \A p \in Procs :
        (pc[p] = "done" /\ call[p].op \in {"delete_book", "delete_user"} /\ parse_str_ok(call[p].id))
        => IF parse_str(call[p].id) \in DOMAIN DelPre(p)
           THEN DeletedStored(p)
           ELSE result[p].kind = "Err" /\ books = pre[p].books /\ users = pre[p].users

\* C17: in every reachable state no two stored users have the same email, under
\* any sequence or interleaving of create_user and update_user calls; a
\* create_user that has returned "User already exist" has inserted nothing.
C17_EmailUnique ==
    /\ \A u1, u2 \in DOMAIN users : users[u1].email = users[u2].email => u1 = u2
    /\ \A p \in Procs :
          (Returned(p, "create_user") /\ result[p] = Err("User already exist"))
          => writes[p] = <<>>

\* C18: in every reachable state no two stored genres have the same name, under
\* any sequence or interleaving of create_genre calls; a create_genre that has
\* returned "Genre already exist" has inserted nothing.
C18_GenreUnique ==
    /\ \A i, j \in 1..Len(genres) : genres[i].name = genres[j].name => i = j
    /\ \A p \in Procs :
          (Returned(p, "create_genre") /\ result[p] = Err("Genre already exist"))
          => writes[p] = <<>>

\* the stored genres named n
Named(n) == {i \in 1..Len(genres) : genres[i].name = n}
\* the stored books whose gender_id is the id of genre i as a string
BooksOfGenre(i) == {o \in DOMAIN books : books[o].gender_id = genre_id_str(i)}

\* C19: get_books_by_genre(name) returns an empty list when no genre has that
\* exact name, and otherwise exactly the stored books whose gender_id is the
\* stringified id of the genre of that name, each with its gender_id replaced by
\* the name and its other fields as stored; a book with the sentinel or with
\* another genre's id is never returned.
C19_BooksByGenre ==
    \A p \in Procs :
        Returned(p, "get_books_by_genre")
        => LET n == call[p].name
           IN IF Named(n) = {}
              THEN result[p] = Ok(<<>>)
              ELSE LET g == CHOOSE i \in Named(n) : TRUE
                       S == BooksOfGenre(g)
                   IN /\ result[p].kind = "Ok"
                      /\ result[p].value
                           = in_order([o \in S |-> [books[o] EXCEPT !.gender_id = n]], S, 1)
                      /\ Len(result[p].value) = Cardinality(S)

\* a genre with a book is asked for while another genre has a book too
C19_Witness ==
    \E p \in Procs :
        /\ Returned(p, "get_books_by_genre")
        /\ result[p].kind = "Ok" /\ Len(result[p].value) >= 1
        /\ \E h \in 1..Len(genres) : genres[h].name # call[p].name /\ BooksOfGenre(h) # {}

\* the ratings of the comments on book o, and their number
RatingsOf(o) == {i \in 1..Len(comments) : comments[i].book_id = to_hex(o)}
Total(o) == sum([i \in 1..Len(comments) |->
                   IF i \in RatingsOf(o) THEN comments[i].rating ELSE 0])
Count(o) == Cardinality(RatingsOf(o))

\* the mean rating of book o, which has a comment, satisfies op against t
MeanSatisfies(o, op, t) ==
    CASE op = "=" -> Total(o) = t * Count(o)
      [] op = "!=" -> Total(o) # t * Count(o)
      [] op = ">" -> Total(o) > t * Count(o)
      [] op = ">=" -> Total(o) >= t * Count(o)
      [] op = "<" -> Total(o) < t * Count(o)
      [] op = "<=" -> Total(o) <= t * Count(o)

\* how many times each value occurs in a list
BagOf(v) == [x \in {v[i] : i \in 1..Len(v)} |-> Cardinality({i \in 1..Len(v) : v[i] = x})]

SixOperators == {"=", "!=", ">", ">=", "<", "<="}

\* the call of p has returned exactly the stored books with the ids S
ReturnedBooks(p, S) ==
    /\ result[p].kind = "Ok"
    /\ BagOf(result[p].value) = BagOf(in_order(books, S, 1))

RatedCall(p) ==
    /\ Returned(p, "get_all_books_by_operator_rating")
    /\ call[p].operator \in SixOperators

\* C20 as claimed: get_all_books_by_operator_rating(op, t) returns exactly the
\* books that have at least one comment and whose mean comment rating satisfies
\* op against t, for each of the six operators; a book with zero comments is
\* excluded for every operator.
C20_ByRatingOriginal ==
    \A p \in Procs :
        RatedCall(p)
        => ReturnedBooks(p, {o \in DOMAIN books :
                               Count(o) > 0 /\ MeanSatisfies(o, call[p].operator, call[p].rating)})

\* C20 as amended: for =, >, >=, < and <= the call returns exactly the books
\* that have at least one comment and whose mean comment rating (over the
\* comments whose book_id is the book's stringified id) satisfies op against t,
\* so a book with zero comments is excluded; for != it returns those books and
\* also every book with zero comments.
C20_ByRating ==
    \A p \in Procs :
        RatedCall(p)
        => ReturnedBooks(p, {o \in DOMAIN books :
                               \/ Count(o) > 0 /\ MeanSatisfies(o, call[p].operator, call[p].rating)
                               \/ Count(o) = 0 /\ call[p].operator = "!="})

\* a book rated [2,4,6] is returned for >= 4 while a book without a comment is not
C20_Witness ==
    \E p \in Procs :
        /\ RatedCall(p) /\ call[p].operator = ">=" /\ call[p].rating = 4
        /\ \E o \in DOMAIN books : Count(o) = 3 /\ Total(o) = 12
        /\ \E o \in DOMAIN books : Count(o) = 0 /\ books[o] \notin {result[p].value[1]}
        /\ result[p].kind = "Ok" /\ Len(result[p].value) = 1

\* the books named by the entries of user u's borrowed_books, in their order
BooksListed(u) ==
    [i \in 1..Len(users[u].borrowed_books) |-> parse_str(users[u].borrowed_books[i])]

\* C21: after any sequential run of successful borrow_book and return_book calls
\* by one user over several books, that user's borrowed_books lists the books
\* borrowed and not yet returned, each once, in the order in which they were
\* borrowed.
C21_BorrowOrder ==
    NoCallInFlight =>
        \A u \in DOMAIN users :
            /\ BooksListed(u) = lent[u]
            /\ \A i, j \in 1..Len(users[u].borrowed_books) :
                   BooksListed(u)[i] = BooksListed(u)[j] => i = j

\* request p makes the write it is suspended at
WritesBook(p) == pc[p] \in {"bb_update_book", "rb_update_book"} /\ pc'[p] # pc[p]
WritesUser(p) == pc[p] \in {"bb_update_user", "rb_update_user"} /\ pc'[p] # pc[p]

\* the step changes nothing in coll but field f of document oid
OnlyField(coll, collNext, oid, f) ==
    /\ DOMAIN collNext = DOMAIN coll
    /\ \A o \in DOMAIN coll : \A g \in DOMAIN coll[o] :
           (o # oid \/ g # f) => collNext[o][g] = coll[o][g]

\* C22: a successful borrow_book or return_book changes only the target book's
\* availability and the target user's borrowed_books: each of its two writes
\* leaves every other stored field of that book and that user, and every other
\* book and user, with the value it has in the store, also when an update_book
\* or update_user on the same document committed after the call read it.
C22_Frame ==
    [][\A p \in Procs :
          /\ WritesBook(p) =>
                (users' = users /\ OnlyField(books, books', BookOf(p), "availability"))
          /\ WritesUser(p) =>
                (books' = books /\ OnlyField(users, users', UserOf(p), "borrowed_books"))]_vars
====
